---- MODULE Spec2Model ----
(***************************************************************************)
(* Timelock key sharding (src/timelock_key_sharing.rs): the LCS35 puzzle   *)
(* mock (shard / unlock), the TimelockKeySharding service (shard_key,      *)
(* reconstruct_key, check_shard_entropy) and its two statistical helpers.  *)
(*                                                                         *)
(* Bytes are integers 0..255, byte strings are sequences of bytes, and a   *)
(* Rust String holding hex text is a sequence of one-character strings.    *)
(* SHA-256 is computed (FIPS 180-4), so the shares in the model are the    *)
(* shares the program produces for the same keys.                          *)
(***************************************************************************)
EXTENDS Integers, Sequences, FiniteSets

(***************************************************************************)
(* Bounds of the model.                                                    *)
(***************************************************************************)
\* Largest num_shards passed to shard_key; thresholds range over 1..MaxShards
\* and reconstruct_key is given at most MaxShards shares.
MaxShards == 3
\* Longest run of one byte value in a sample given to the bias test.
MaxRun == 13

(***************************************************************************)
(* Bit operations on bytes and on 32-bit words.  A 32-bit word is a pair   *)
(* <<hi, lo>> of 16-bit halves, which keeps every intermediate value       *)
(* within TLC's 32-bit integers while the arithmetic stays mod 2^32.       *)
(***************************************************************************)
\* XorNibble[16 * a + b + 1] = a XOR b for 4-bit a, b
XorNibble ==
  << 0, 1, 2, 3, 4, 5, 6, 7, 8, 9, 10, 11, 12, 13, 14, 15,
     1, 0, 3, 2, 5, 4, 7, 6, 9, 8, 11, 10, 13, 12, 15, 14,
     2, 3, 0, 1, 6, 7, 4, 5, 10, 11, 8, 9, 14, 15, 12, 13,
     3, 2, 1, 0, 7, 6, 5, 4, 11, 10, 9, 8, 15, 14, 13, 12,
     4, 5, 6, 7, 0, 1, 2, 3, 12, 13, 14, 15, 8, 9, 10, 11,
     5, 4, 7, 6, 1, 0, 3, 2, 13, 12, 15, 14, 9, 8, 11, 10,
     6, 7, 4, 5, 2, 3, 0, 1, 14, 15, 12, 13, 10, 11, 8, 9,
     7, 6, 5, 4, 3, 2, 1, 0, 15, 14, 13, 12, 11, 10, 9, 8,
     8, 9, 10, 11, 12, 13, 14, 15, 0, 1, 2, 3, 4, 5, 6, 7,
     9, 8, 11, 10, 13, 12, 15, 14, 1, 0, 3, 2, 5, 4, 7, 6,
     10, 11, 8, 9, 14, 15, 12, 13, 2, 3, 0, 1, 6, 7, 4, 5,
     11, 10, 9, 8, 15, 14, 13, 12, 3, 2, 1, 0, 7, 6, 5, 4,
     12, 13, 14, 15, 8, 9, 10, 11, 4, 5, 6, 7, 0, 1, 2, 3,
     13, 12, 15, 14, 9, 8, 11, 10, 5, 4, 7, 6, 1, 0, 3, 2,
     14, 15, 12, 13, 10, 11, 8, 9, 6, 7, 4, 5, 2, 3, 0, 1,
     15, 14, 13, 12, 11, 10, 9, 8, 7, 6, 5, 4, 3, 2, 1, 0 >>

\* AndNibble[16 * a + b + 1] = a AND b for 4-bit a, b
AndNibble ==
  << 0, 0, 0, 0, 0, 0, 0, 0, 0, 0, 0, 0, 0, 0, 0, 0,
     0, 1, 0, 1, 0, 1, 0, 1, 0, 1, 0, 1, 0, 1, 0, 1,
     0, 0, 2, 2, 0, 0, 2, 2, 0, 0, 2, 2, 0, 0, 2, 2,
     0, 1, 2, 3, 0, 1, 2, 3, 0, 1, 2, 3, 0, 1, 2, 3,
     0, 0, 0, 0, 4, 4, 4, 4, 0, 0, 0, 0, 4, 4, 4, 4,
     0, 1, 0, 1, 4, 5, 4, 5, 0, 1, 0, 1, 4, 5, 4, 5,
     0, 0, 2, 2, 4, 4, 6, 6, 0, 0, 2, 2, 4, 4, 6, 6,
     0, 1, 2, 3, 4, 5, 6, 7, 0, 1, 2, 3, 4, 5, 6, 7,
     0, 0, 0, 0, 0, 0, 0, 0, 8, 8, 8, 8, 8, 8, 8, 8,
     0, 1, 0, 1, 0, 1, 0, 1, 8, 9, 8, 9, 8, 9, 8, 9,
     0, 0, 2, 2, 0, 0, 2, 2, 8, 8, 10, 10, 8, 8, 10, 10,
     0, 1, 2, 3, 0, 1, 2, 3, 8, 9, 10, 11, 8, 9, 10, 11,
     0, 0, 0, 0, 4, 4, 4, 4, 8, 8, 8, 8, 12, 12, 12, 12,
     0, 1, 0, 1, 4, 5, 4, 5, 8, 9, 8, 9, 12, 13, 12, 13,
     0, 0, 2, 2, 4, 4, 6, 6, 8, 8, 10, 10, 12, 12, 14, 14,
     0, 1, 2, 3, 4, 5, 6, 7, 8, 9, 10, 11, 12, 13, 14, 15 >>

Xor8(a, b) ==
  16 * XorNibble[(a \div 16) * 16 + (b \div 16) + 1]
     + XorNibble[(a % 16) * 16 + (b % 16) + 1]

And8(a, b) ==
  16 * AndNibble[(a \div 16) * 16 + (b \div 16) + 1]
     + AndNibble[(a % 16) * 16 + (b % 16) + 1]

Xor16(a, b) == 256 * Xor8(a \div 256, b \div 256) + Xor8(a % 256, b % 256)
And16(a, b) == 256 * And8(a \div 256, b \div 256) + And8(a % 256, b % 256)

WXor(a, b) == <<Xor16(a[1], b[1]), Xor16(a[2], b[2])>>
WAnd(a, b) == <<And16(a[1], b[1]), And16(a[2], b[2])>>
WNot(a) == <<65535 - a[1], 65535 - a[2]>>

\* wrapping addition mod 2^32
WAdd(a, b) ==
  <<(a[1] + b[1] + ((a[2] + b[2]) \div 65536)) % 65536, (a[2] + b[2]) % 65536>>

\* wrapping sums of four and of five words
WAdd4(a, b, c, d) ==
  <<(a[1] + b[1] + c[1] + d[1] + ((a[2] + b[2] + c[2] + d[2]) \div 65536)) % 65536,
    (a[2] + b[2] + c[2] + d[2]) % 65536>>

WAdd5(a, b, c, d, e) ==
  <<(a[1] + b[1] + c[1] + d[1] + e[1]
       + ((a[2] + b[2] + c[2] + d[2] + e[2]) \div 65536)) % 65536,
    (a[2] + b[2] + c[2] + d[2] + e[2]) % 65536>>

\* a XOR b XOR c
WXor3(a, b, c) ==
  <<Xor16(Xor16(a[1], b[1]), c[1]), Xor16(Xor16(a[2], b[2]), c[2])>>

\* rotate right by n bits, 0 < n < 32
RotR(a, n) ==
  LET x == IF n >= 16 THEN <<a[2], a[1]>> ELSE a
      m == n % 16
  IN  IF m = 0 THEN x
      ELSE <<(x[1] \div (2 ^ m)) + (x[2] % (2 ^ m)) * (2 ^ (16 - m)),
             (x[2] \div (2 ^ m)) + (x[1] % (2 ^ m)) * (2 ^ (16 - m))>>

\* shift right by n bits, 0 < n < 16
ShR(a, n) ==
  <<a[1] \div (2 ^ n), (a[2] \div (2 ^ n)) + (a[1] % (2 ^ n)) * (2 ^ (16 - n))>>

(***************************************************************************)
(* SHA-256 (the sha2 crate's Sha256: new / update / finalize).             *)
(***************************************************************************)
BigSigma0(x) == WXor3(RotR(x, 2), RotR(x, 13), RotR(x, 22))
BigSigma1(x) == WXor3(RotR(x, 6), RotR(x, 11), RotR(x, 25))
SmallSigma0(x) == WXor3(RotR(x, 7), RotR(x, 18), ShR(x, 3))
SmallSigma1(x) == WXor3(RotR(x, 17), RotR(x, 19), ShR(x, 10))
Ch(x, y, z) == WXor(WAnd(x, y), WAnd(WNot(x), z))
Maj(x, y, z) == WXor3(WAnd(x, y), WAnd(x, z), WAnd(y, z))

\* round constants
ShaK ==
  << <<17034, 12184>>, <<28983, 17553>>, <<46528, 64463>>, <<59829, 56229>>,
     <<14678, 49755>>, <<23025, 4593>>, <<37439, 33444>>, <<43804, 24277>>,
     <<55303, 43672>>, <<4739, 23297>>, <<9265, 34238>>, <<21772, 32195>>,
     <<29374, 23924>>, <<32990, 45566>>, <<39900, 1703>>, <<49563, 61812>>,
     <<58523, 27073>>, <<61374, 18310>>, <<4033, 40390>>, <<9228, 41420>>,
     <<11753, 11375>>, <<19060, 33962>>, <<23728, 43484>>, <<30457, 35034>>,
     <<38974, 20818>>, <<43057, 50797>>, <<45059, 10184>>, <<48985, 32711>>,
     <<50912, 3059>>, <<54695, 37191>>, <<1738, 25425>>, <<5161, 10599>>,
     <<10167, 2693>>, <<11803, 8504>>, <<19756, 28156>>, <<21304, 3347>>,
     <<25866, 29524>>, <<30314, 2747>>, <<33218, 51502>>, <<37490, 11397>>,
     <<41663, 59553>>, <<43034, 26187>>, <<49739, 35696>>, <<51052, 20899>>,
     <<53650, 59417>>, <<54937, 1572>>, <<62478, 13701>>, <<4202, 41072>>,
     <<6564, 49430>>, <<7735, 27656>>, <<10056, 30540>>, <<13488, 48309>>,
     <<14620, 3251>>, <<20184, 43594>>, <<23452, 51791>>, <<26670, 28659>>,
     <<29839, 33518>>, <<30885, 25455>>, <<33992, 30740>>, <<36039, 520>>,
     <<37054, 65530>>, <<42064, 27883>>, <<48889, 41975>>, <<50801, 30962>> >>

\* initial hash value
ShaH0 ==
  << <<27145, 58983>>, <<47975, 44677>>, <<15470, 62322>>, <<42319, 62778>>,
     <<20750, 21119>>, <<39685, 26764>>, <<8067, 55723>>, <<23520, 52505>> >>

Zeros64 ==
  <<0, 0, 0, 0, 0, 0, 0, 0, 0, 0, 0, 0, 0, 0, 0, 0,
    0, 0, 0, 0, 0, 0, 0, 0, 0, 0, 0, 0, 0, 0, 0, 0,
    0, 0, 0, 0, 0, 0, 0, 0, 0, 0, 0, 0, 0, 0, 0, 0,
    0, 0, 0, 0, 0, 0, 0, 0, 0, 0, 0, 0, 0, 0, 0, 0>>

\* message || 0x80 || zeros || 64-bit big-endian bit length
\* (messages in the model are shorter than 8192 bytes)
Pad(msg) ==
  LET len == Len(msg)
      zeros == (119 - (len % 64)) % 64
      bits == len * 8
  IN  msg \o <<128>> \o SubSeq(Zeros64, 1, zeros)
          \o <<0, 0, 0, 0, 0, 0, bits \div 256, bits % 256>>

WordAt(p, o) == <<p[o + 1] * 256 + p[o + 2], p[o + 3] * 256 + p[o + 4]>>

\* the 16 message words of block b (b = 0, 1, ...) of the padded message p
BlockWords(p, b) ==
  LET o == 64 * b
  IN  <<WordAt(p, o), WordAt(p, o + 4), WordAt(p, o + 8), WordAt(p, o + 12),
        WordAt(p, o + 16), WordAt(p, o + 20), WordAt(p, o + 24), WordAt(p, o + 28),
        WordAt(p, o + 32), WordAt(p, o + 36), WordAt(p, o + 40), WordAt(p, o + 44),
        WordAt(p, o + 48), WordAt(p, o + 52), WordAt(p, o + 56), WordAt(p, o + 60)>>

\* message schedule: w extended by word t (17 <= t <= 64, 1-based)
Extend(w, t) ==
  Append(w, WAdd4(SmallSigma1(w[t - 2]), w[t - 7], SmallSigma0(w[t - 15]), w[t - 16]))

\* w extended by words lo..hi, in order.  The range is split in halves and
\* each half is a value before the next starts, which keeps the evaluation
\* shallow; the result is that of extending word by word.
RECURSIVE Schedule(_, _, _)
Schedule(w, lo, hi) ==
  IF lo = hi THEN Extend(w, lo)
  ELSE LET mid == (lo + hi) \div 2
       IN  CHOOSE r \in {Schedule(v, mid + 1, hi) : v \in {Schedule(w, lo, mid)}} : TRUE

\* the working variables <<a, b, c, d, e, f, g, h>> after a round, given its T1 and T2
Rotate(s, t1, t2) ==
  <<WAdd(t1, t2), s[1], s[2], s[3], WAdd(s[4], t1), s[5], s[6], s[7]>>

\* one compression round on the working variables s
Round(s, w, t) ==
  Rotate(s,
         WAdd5(s[8], BigSigma1(s[5]), Ch(s[5], s[6], s[7]), ShaK[t], w[t]),
         WAdd(BigSigma0(s[1]), Maj(s[1], s[2], s[3])))

\* rounds lo..hi, in order (split in halves as Schedule is)
RECURSIVE Rounds(_, _, _, _)
Rounds(s, w, lo, hi) ==
  IF lo = hi THEN Round(s, w, lo)
  ELSE LET mid == (lo + hi) \div 2
       IN  CHOOSE r \in {Rounds(v, w, mid + 1, hi) : v \in {Rounds(s, w, lo, mid)}} : TRUE

AddWords(h, s) ==
  <<WAdd(h[1], s[1]), WAdd(h[2], s[2]), WAdd(h[3], s[3]), WAdd(h[4], s[4]),
    WAdd(h[5], s[5]), WAdd(h[6], s[6]), WAdd(h[7], s[7]), WAdd(h[8], s[8])>>

\* one block compressed into the hash value h (the schedule is a value
\* before the rounds start, the rounds' result before it is added)
Compress(h, words) ==
  CHOOSE r \in {AddWords(h, s) :
                  s \in {Rounds(h, w, 1, 64) : w \in {Schedule(words, 17, 64)}}} : TRUE

RECURSIVE Blocks(_, _, _)
Blocks(h, p, b) ==
  IF 64 * b >= Len(p) THEN h
  ELSE CHOOSE r \in {Blocks(v, p, b + 1) : v \in {Compress(h, BlockWords(p, b))}} : TRUE

WordBytes(w) == <<w[1] \div 256, w[1] % 256, w[2] \div 256, w[2] % 256>>

DigestBytes(h) ==
  WordBytes(h[1]) \o WordBytes(h[2]) \o WordBytes(h[3]) \o WordBytes(h[4])
    \o WordBytes(h[5]) \o WordBytes(h[6]) \o WordBytes(h[7]) \o WordBytes(h[8])

\* Sha256::new(); update(msg); finalize().to_vec(): the 32-byte digest
Sha256(msg) == CHOOSE r \in {DigestBytes(h) : h \in {Blocks(ShaH0, Pad(msg), 0)}} : TRUE

\* n re-hashing passes (the loop of line 64 has 10): hash = Sha256(hash), n
\* times.  The passes are split in halves, the first half's digest a value
\* before the second half starts.
RECURSIVE Rehash(_, _)
Rehash(hash, n) ==
  IF n = 0 THEN hash
  ELSE IF n = 1 THEN Sha256(hash)
  ELSE CHOOSE r \in {Rehash(v, n - (n \div 2)) : v \in {Rehash(hash, n \div 2)}} : TRUE

(***************************************************************************)
(* Hex text (the hex crate) and UTF-8 validation (String::from_utf8).      *)
(***************************************************************************)
HexChars ==
  <<"0", "1", "2", "3", "4", "5", "6", "7", "8", "9", "a", "b", "c", "d", "e", "f">>

\* the two lower-case digits of bytes lo..hi, high nibble first
RECURSIVE hex_digits(_, _, _)
hex_digits(bytes, lo, hi) ==
  IF lo > hi THEN <<>>
  ELSE IF lo = hi
    THEN <<HexChars[(bytes[lo] \div 16) + 1], HexChars[(bytes[lo] % 16) + 1]>>
  ELSE hex_digits(bytes, lo, (lo + hi) \div 2) \o hex_digits(bytes, ((lo + hi) \div 2) + 1, hi)

\* hex::encode
hex_encode(bytes) == hex_digits(bytes, 1, Len(bytes))

\* the value of a hex digit, either case; -1 for any other character
hex_val(c) ==
  CASE c = "0" -> 0 [] c = "1" -> 1 [] c = "2" -> 2 [] c = "3" -> 3
    [] c = "4" -> 4 [] c = "5" -> 5 [] c = "6" -> 6 [] c = "7" -> 7
    [] c = "8" -> 8 [] c = "9" -> 9
    [] c = "a" -> 10 [] c = "b" -> 11 [] c = "c" -> 12
    [] c = "d" -> 13 [] c = "e" -> 14 [] c = "f" -> 15
    [] c = "A" -> 10 [] c = "B" -> 11 [] c = "C" -> 12
    [] c = "D" -> 13 [] c = "E" -> 14 [] c = "F" -> 15
    [] OTHER -> -1

\* the bytes of digit pairs lo..hi of s
RECURSIVE hex_pairs(_, _, _)
hex_pairs(s, lo, hi) ==
  IF lo > hi THEN <<>>
  ELSE IF lo = hi THEN <<16 * hex_val(s[2 * lo - 1]) + hex_val(s[2 * lo])>>
  ELSE hex_pairs(s, lo, (lo + hi) \div 2) \o hex_pairs(s, ((lo + hi) \div 2) + 1, hi)

\* hex::decode: OddLength, else an invalid character, else the bytes (the
\* error text leaves out which character and where)
hex_decode(s) ==
  IF Len(s) % 2 = 1
    THEN [ok |-> FALSE, error |-> "Odd number of digits", bytes |-> <<>>]
  ELSE IF \E i \in 1..Len(s) : hex_val(s[i]) < 0
    THEN [ok |-> FALSE, error |-> "Invalid character", bytes |-> <<>>]
  ELSE [ok |-> TRUE, error |-> "", bytes |-> hex_pairs(s, 1, Len(s) \div 2)]

\* One byte c consumed by the UTF-8 validation of core::str::from_utf8.
\* st = <<need, lo, hi>>: need continuation bytes are still due, the next of
\* them within lo..hi; need = -1 once the input is known to be ill-formed.
utf8_step(st, c) ==
  IF st[1] < 0 THEN st
  ELSE IF st[1] > 0
    THEN IF c >= st[2] /\ c <= st[3] THEN <<st[1] - 1, 128, 191>> ELSE <<-1, 0, 0>>
  ELSE IF c < 128 THEN <<0, 128, 191>>
  ELSE IF c >= 194 /\ c <= 223 THEN <<1, 128, 191>>
  ELSE IF c >= 224 /\ c <= 239
    THEN <<2, IF c = 224 THEN 160 ELSE 128, IF c = 237 THEN 159 ELSE 191>>
  ELSE IF c >= 240 /\ c <= 244
    THEN <<3, IF c = 240 THEN 144 ELSE 128, IF c = 244 THEN 143 ELSE 191>>
  ELSE <<-1, 0, 0>>

\* bytes lo..hi of b consumed in order from state st (the range is split in
\* halves, each a value before the next starts)
RECURSIVE utf8_scan(_, _, _, _)
utf8_scan(st, b, lo, hi) ==
  IF lo > hi THEN st
  ELSE IF lo = hi THEN utf8_step(st, b[lo])
  ELSE LET mid == (lo + hi) \div 2
       IN  CHOOSE r \in {utf8_scan(v, b, mid + 1, hi) : v \in {utf8_scan(st, b, lo, mid)}} : TRUE

\* String::from_utf8(bytes).is_ok(): well-formed, and no sequence left open
from_utf8_ok(bytes) == utf8_scan(<<0, 128, 191>>, bytes, 1, Len(bytes))[1] = 0

(***************************************************************************)
(* Results.  Every Result<_, String>, and a panic, is a record of the same *)
(* shape: kind is "Ok", "Err" or "Panic", msg the error's format string,   *)
(* nums the numbers formatted into it, value the Ok payload (bytes).       *)
(***************************************************************************)
Ok(v) == [kind |-> "Ok", msg |-> "", nums |-> <<>>, value |-> v]
Err(m, n) == [kind |-> "Err", msg |-> m, nums |-> n, value |-> <<>>]
Panic(m) == [kind |-> "Panic", msg |-> m, nums |-> <<>>, value |-> <<>>]

(***************************************************************************)
(* The state.                                                              *)
(***************************************************************************)
VARIABLES
  overflow_checks,  \* the build: TRUE when integer overflow panics (dev profile)
  sharded,          \* the shard_key call made so far, and what it returned
  recon,            \* the reconstruct_key call made so far, and what it returned
  entropy_check,    \* what check_shard_entropy said of shard_key's output
  sample,           \* the bytes given to check_borel_regularity
  suspicious        \* what check_borel_regularity said of sample

vars == <<overflow_checks, sharded, recon, entropy_check, sample, suspicious>>

(***************************************************************************)
(* mod silurian_puzzle: LCS35                                              *)
(***************************************************************************)
\* 2u64.pow(difficulty) as its eight little-endian bytes (what shard feeds
\* to the hasher).  From difficulty 64 on the power overflows u64: the
\* multiplication wraps to 0 without overflow checks and panics with them.
Pow2U64Le(difficulty) ==
  IF difficulty >= 64 THEN <<0, 0, 0, 0, 0, 0, 0, 0>>
  ELSE SubSeq(<<0, 0, 0, 0, 0, 0, 0>>, 1, difficulty \div 8)
         \o <<2 ^ (difficulty % 8)>>
         \o SubSeq(<<0, 0, 0, 0, 0, 0, 0>>, 1, 7 - (difficulty \div 8))

LCS35_new(difficulty) ==
  [panicked |-> difficulty >= 64 /\ overflow_checks,
   difficulty |-> difficulty,
   iterations |-> Pow2U64Le(difficulty)]

\* the share for x_value = i as u8: the index byte, then the key and index
\* hashed and re-hashed 10 times
shard_one(key, i) ==
  CHOOSE r \in {<<i % 256>> \o Rehash(hash, 10) : hash \in {Sha256(key \o <<i % 256>>)}} : TRUE

\* the loop `for i in 1..=num_shards`, from i on
RECURSIVE shard_from(_, _, _)
shard_from(key, i, num_shards) ==
  IF i > num_shards THEN <<>>
  ELSE <<shard_one(key, i)>> \o shard_from(key, i + 1, num_shards)

\* LCS35::shard.  The coefficients are computed and never read.
shard(puzzle, key, num_shards) ==
  LET coefficients == [c \in 1..(num_shards - 1) |-> Sha256(key \o puzzle.iterations)]
  IN  IF num_shards < 2
        THEN [panicked |-> TRUE, shards |-> <<>>]
      ELSE [panicked |-> FALSE, shards |-> shard_from(key, 1, num_shards)]

\* key[i] after the outer loop: byte i + 1 of each of the first k shares
\* that has one, XORed into 0
RECURSIVE xor_column(_, _, _)
xor_column(shards, k, i) ==
  IF k = 0 THEN 0
  ELSE IF i + 1 <= Len(shards[k])
    THEN Xor8(xor_column(shards, k - 1, i), shards[k][i + 1])
  ELSE xor_column(shards, k - 1, i)

\* key[lo..hi] (1-based) after the loops
RECURSIVE xor_key(_, _, _, _)
xor_key(shards, k, lo, hi) ==
  IF lo = hi THEN <<xor_column(shards, k, lo)>>
  ELSE xor_key(shards, k, lo, (lo + hi) \div 2) \o xor_key(shards, k, ((lo + hi) \div 2) + 1, hi)

\* LCS35::unlock
unlock(puzzle, shards, threshold) ==
  IF Len(shards) < threshold
    THEN Err("Not enough shards provided", <<>>)
  ELSE Ok(xor_key(shards, threshold, 1, 32))

\* the iterations of the inner loop for one shard: skip(1).take(32)
inner_steps(shard_len) ==
  IF shard_len - 1 > 32 THEN 32 ELSE IF shard_len - 1 < 0 THEN 0 ELSE shard_len - 1

\* the iterations unlock executes over the first k shards: one of the outer
\* loop per shard taken, one of the inner loop per byte XORed into the key
RECURSIVE unlock_steps(_, _)
unlock_steps(shards, k) ==
  IF k = 0 THEN 0
  ELSE unlock_steps(shards, k - 1) + 1 + inner_steps(Len(shards[k]))

(***************************************************************************)
(* TimelockKeySharding                                                     *)
(***************************************************************************)
TimelockKeySharding_new(difficulty, threshold) ==
  [difficulty |-> difficulty, threshold |-> threshold]

\* the shares, hex-encoded, from share i on
RECURSIVE encode_from(_, _)
encode_from(shards, i) ==
  IF i > Len(shards) THEN <<>>
  ELSE <<hex_encode(shards[i])>> \o encode_from(shards, i + 1)

\* shard_key's result once the puzzle is built and shard has run
shard_key_result(puzzle, shards) ==
  IF puzzle.panicked THEN Panic("attempt to multiply with overflow")
  ELSE IF shards.panicked THEN Panic("Number of shards must be at least 2")
  ELSE Ok(encode_from(shards.shards, 1))

\* a decoded share put in front of the rest of the collection; the rest's
\* error when it has one
decode_cons(bytes, rest) ==
  IF rest.ok THEN [rest EXCEPT !.shards = <<bytes>> \o @] ELSE rest

\* shards.iter().map(hex::decode).collect(), from share i on: the decoded
\* shares, or the error of the first share that fails to decode
RECURSIVE decode_from(_, _)
decode_next(decoded, shards, i) ==
  IF ~decoded.ok THEN [ok |-> FALSE, error |-> decoded.error, shards |-> <<>>]
  ELSE decode_cons(decoded.bytes, decode_from(shards, i + 1))

decode_from(shards, i) ==
  IF i > Len(shards) THEN [ok |-> TRUE, error |-> "", shards |-> <<>>]
  ELSE decode_next(hex_decode(shards[i]), shards, i)

\* the arm Ok(bytes) of `match puzzle.unlock(..)`, and `?` on its error
key_string(unlocked) ==
  IF unlocked.kind = "Err" THEN unlocked
  ELSE IF from_utf8_ok(unlocked.value) THEN Ok(unlocked.value)
  ELSE Err("Reconstructed key is not valid UTF-8", <<>>)

\* `match binary_shards` of reconstruct_key
match_binary_shards(self, binary_shards, puzzle) ==
  IF ~binary_shards.ok THEN Err("Failed to decode hex: " \o binary_shards.error, <<>>)
  ELSE IF puzzle.panicked THEN Panic("attempt to multiply with overflow")
  ELSE key_string(unlock(puzzle, binary_shards.shards, self.threshold))

\* reconstruct_key without the length test of lines 136-139
reconstruct_key_unchecked(self, shards) ==
  match_binary_shards(self, decode_from(shards, 1), LCS35_new(self.difficulty))

reconstruct_key(self, shards) ==
  IF Len(shards) < self.threshold
    THEN Err("Need at least {} shards, but only {} provided",
             <<self.threshold, Len(shards)>>)
  ELSE match_binary_shards(self, decode_from(shards, 1), LCS35_new(self.difficulty))

\* the iterations of unlock's loops once the shares are decoded
steps_of(self, binary_shards, puzzle) ==
  IF binary_shards.ok /\ ~puzzle.panicked /\ Len(binary_shards.shards) >= self.threshold
    THEN unlock_steps(binary_shards.shards, self.threshold)
  ELSE 0

\* the iterations the call reconstruct_key(self, shards) spends in unlock
reconstruct_steps(self, shards) ==
  IF Len(shards) < self.threshold THEN 0
  ELSE steps_of(self, decode_from(shards, 1), LCS35_new(self.difficulty))

\* round(log2(c) * 10^6) for c = 1..64
Log2Micro ==
  << 0, 1000000, 1584963, 2000000, 2321928, 2584963, 2807355, 3000000,
     3169925, 3321928, 3459432, 3584963, 3700440, 3807355, 3906891, 4000000,
     4087463, 4169925, 4247928, 4321928, 4392317, 4459432, 4523562, 4584963,
     4643856, 4700440, 4754888, 4807355, 4857981, 4906891, 4954196, 5000000,
     5044394, 5087463, 5129283, 5169925, 5209453, 5247928, 5285402, 5321928,
     5357552, 5392317, 5426265, 5459432, 5491853, 5523562, 5554589, 5584963,
     5614710, 5643856, 5672425, 5700440, 5727920, 5754888, 5781360, 5807355,
     5832890, 5857981, 5882643, 5906891, 5930737, 5954196, 5977280, 6000000 >>

\* the term of one byte value that occurs count times among len bytes,
\* times len: count * (log2 len - log2 count) = -len * p * log2 p
entropy_term(count, len) ==
  IF count > 0 THEN count * (Log2Micro[len] - Log2Micro[count]) ELSE 0

\* the loop over counts[lo..hi] of calculate_entropy, times len
RECURSIVE entropy_terms(_, _, _)
entropy_terms(data, lo, hi) ==
  IF lo = hi
    THEN entropy_term(Cardinality({i \in 1..Len(data) : data[i] = lo}), Len(data))
  ELSE entropy_terms(data, lo, (lo + hi) \div 2)
         + entropy_terms(data, ((lo + hi) \div 2) + 1, hi)

\* Shannon entropy of data in millionths of a bit; 0 for empty data (no
\* count is positive).  data has at most 64 bytes.
calculate_entropy(data) ==
  IF Len(data) = 0 THEN 0 ELSE entropy_terms(data, 0, 255) \div Len(data)

\* the number of 0 bits of a byte
zero_bits(byte) ==
  8 - ((byte % 2) + ((byte \div 2) % 2) + ((byte \div 4) % 2) + ((byte \div 8) % 2)
       + ((byte \div 16) % 2) + ((byte \div 32) % 2) + ((byte \div 64) % 2)
       + ((byte \div 128) % 2))

\* the 0 bits of data[lo..hi]
RECURSIVE count_zeros(_, _, _)
count_zeros(data, lo, hi) ==
  IF lo > hi THEN 0
  ELSE IF lo = hi THEN zero_bits(data[lo])
  ELSE LET mid == (lo + hi) \div 2
       IN  count_zeros(data, lo, mid) + count_zeros(data, mid + 1, hi)

\* (zeros / total - 0.5).abs() < 0.01 in f64.  With total = 0 the ratio is
\* NaN and the comparison false; otherwise it is 50 * |2 zeros - total| < total
\* (the two agree for every count of up to 3200 bits).
near_half(zeros, total) ==
  /\ total > 0
  /\ 50 * (IF 2 * zeros < total THEN total - 2 * zeros ELSE 2 * zeros - total) < total

check_borel_regularity(data) == near_half(count_zeros(data, 1, Len(data)), 8 * Len(data))

\* one pass of check_shard_entropy's loop body without `return false`
shard_passes(binary) ==
  /\ binary.ok
  /\ ~(calculate_entropy(binary.bytes) < 7200000)
  /\ ~check_borel_regularity(binary.bytes)

\* the loop of check_shard_entropy returns false at the first shard that
\* fails to decode, has entropy below 7.2, or is flagged by the bias test
check_shard_entropy(self, shards) ==
  \A i \in 1..Len(shards) : shard_passes(hex_decode(shards[i]))

(***************************************************************************)
(* Inputs.                                                                 *)
(***************************************************************************)
\* "k69849140": a key for which the digests of shares 1 and 2, XORed, are
\* well-formed UTF-8
KeyShort == <<107, 54, 57, 56, 52, 57, 49, 52, 48>>

\* "supersecret_ai_model_encryption_key_2024", the key of main()
KeyMain ==
  <<115, 117, 112, 101, 114, 115, 101, 99, 114, 101, 116, 95, 97, 105, 95, 109,
    111, 100, 101, 108, 95, 101, 110, 99, 114, 121, 112, 116, 105, 111, 110, 95,
    107, 101, 121, 95, 50, 48, 50, 52>>

Keys == {KeyShort, KeyMain}

\* 10 is main()'s difficulty; 64 is the least one whose 2^difficulty overflows u64
Difficulties == {10, 64}

Thresholds == 1..MaxShards

ShardCounts == 0..MaxShards

\* The caller's choice of shares for reconstruct_key, as positions in
\* shard_key's output: any selection in any order, and any selection with
\* its first share given once more at the end.
Selections(n) ==
  LET len == IF n < MaxShards THEN n ELSE MaxShards
      distinct == {s \in UNION {[1..k -> 1..n] : k \in 0..len} :
                     \A i, j \in 1..Len(s) : i # j => s[i] # s[j]}
  IN  distinct \cup {Append(s, s[1]) : s \in {d \in distinct : Len(d) \in 1..(len - 1)}}

\* One character of one share overwritten: position 2 is the low digit of
\* the index byte, position 3 the first digit of the hash; "g" is no hex digit.
Edits == {<<2, "7">>, <<3, "7">>, <<3, "g">>}

NoEdit == [at |-> 0, pos |-> 0, ch |-> ""]

\* the edits of the first or the last share of a selection
Tamperings(picks) ==
  {NoEdit} \cup {[at |-> j, pos |-> e[1], ch |-> e[2]] :
                   j \in {1, Len(picks)} \cap (1..Len(picks)), e \in Edits}

\* the list handed to reconstruct_key
InputOf(shares, picks, edit) ==
  [i \in 1..Len(picks) |->
     IF i = edit.at THEN [shares[picks[i]] EXCEPT ![edit.pos] = edit.ch]
     ELSE shares[picks[i]]]

\* a run of k bytes a followed by a run of m bytes b
Runs(a, k, b, m) == [i \in 1..(k + m) |-> IF i <= k THEN a ELSE b]

SampleBytes == {0, 255, 15, 7, 85}

Samples ==
  {Runs(a, k, b, m) : a \in SampleBytes, b \in SampleBytes, k \in 0..MaxRun, m \in 0..MaxRun}

None == [kind |-> "None", msg |-> "", nums |-> <<>>, value |-> <<>>]

NotSharded ==
  [called |-> FALSE, self |-> TimelockKeySharding_new(0, 0), key |-> <<>>,
   num_shards |-> 0, result |-> None]

NotReconstructed ==
  [called |-> FALSE, picks |-> <<>>, edit |-> NoEdit, input |-> <<>>,
   result |-> None, steps |-> 0]

(***************************************************************************)
(* The service as main() drives it: a build, shard_key, the entropy check  *)
(* of the shares, a reconstruct_key call.                                  *)
(***************************************************************************)
Init ==
  /\ overflow_checks \in BOOLEAN
  /\ sharded = NotSharded
  /\ recon = NotReconstructed
  /\ entropy_check = "unchecked"
  /\ sample = <<>>
  /\ suspicious = "untested"

\* TimelockKeySharding::new(difficulty, threshold).shard_key(key, num_shards):
\* the puzzle is built, the key is sharded, the shares are hex-encoded.
ShardKey ==
  /\ ~sharded.called
  /\ \E key \in Keys, num_shards \in ShardCounts, difficulty \in Difficulties :
       \E puzzle \in {LCS35_new(difficulty)} :
         \E shards \in {IF puzzle.panicked THEN [panicked |-> TRUE, shards |-> <<>>]
                        ELSE shard(puzzle, key, num_shards)} :
           \E threshold \in Thresholds :
             sharded' = [called |-> TRUE,
                         self |-> TimelockKeySharding_new(difficulty, threshold),
                         key |-> key,
                         num_shards |-> num_shards,
                         result |-> shard_key_result(puzzle, shards)]
  /\ UNCHANGED <<overflow_checks, recon, entropy_check, sample, suspicious>>

\* sharding.reconstruct_key(&input) on the service that made the shares,
\* input being shares of shard_key's output as the caller selected and
\* possibly altered them.  As in main(), it follows the entropy check,
\* whatever its outcome.
ReconstructKey ==
  /\ sharded.called
  /\ sharded.result.kind = "Ok"
  /\ entropy_check # "unchecked"
  /\ ~recon.called
  /\ \E picks \in Selections(sharded.num_shards) :
       \E edit \in Tamperings(picks) :
         \E input \in {InputOf(sharded.result.value, picks, edit)} :
           /\ edit.at # 0 => sharded.result.value[picks[edit.at]][edit.pos] # edit.ch
           /\ recon' = [called |-> TRUE, picks |-> picks, edit |-> edit, input |-> input,
                        result |-> reconstruct_key(sharded.self, input),
                        steps |-> reconstruct_steps(sharded.self, input)]
  /\ UNCHANGED <<overflow_checks, sharded, entropy_check, sample, suspicious>>

\* sharding.check_shard_entropy(&shards) on shard_key's output, as main() does
CheckShardEntropy ==
  /\ sharded.called
  /\ sharded.result.kind = "Ok"
  /\ entropy_check = "unchecked"
  /\ entropy_check' = IF check_shard_entropy(sharded.self, sharded.result.value)
                        THEN "PASSED" ELSE "FAILED"
  /\ UNCHANGED <<overflow_checks, sharded, recon, sample, suspicious>>

Next == ShardKey \/ ReconstructKey \/ CheckShardEntropy

Spec == Init /\ [][Next]_vars

(***************************************************************************)
(* The bias test alone, on samples of bytes.                               *)
(***************************************************************************)
InitBias ==
  /\ overflow_checks \in BOOLEAN
  /\ sharded = NotSharded
  /\ recon = NotReconstructed
  /\ entropy_check = "unchecked"
  /\ sample \in Samples
  /\ suspicious = "untested"

BiasTest ==
  /\ suspicious = "untested"
  /\ suspicious' = IF check_borel_regularity(sample) THEN "flagged" ELSE "passed"
  /\ UNCHANGED <<overflow_checks, sharded, recon, entropy_check, sample>>

NextBias == BiasTest

SpecBias == InitBias /\ [][NextBias]_vars


(***************************************************************************)
(* Properties.                                                             *)
(***************************************************************************)
\* whether no position occurs twice in a selection
Distinct(picks) == \A i, j \in 1..Len(picks) : i # j => picks[i] # picks[j]

\* the threshold and the share count of the shard_key call
ThresholdT == sharded.self.threshold
CountN == sharded.num_shards

\* reconstruct_key was given threshold-many different shares of shard_key's
\* output, unaltered
GivenAnySubset ==
  /\ recon.called
  /\ recon.edit = NoEdit
  /\ Distinct(recon.picks)
  /\ Len(recon.picks) = ThresholdT

\* C1: with 2 <= T <= N, reconstruct_key on any T of the N shares of
\* shard_key(secret, N), in any order, returns Ok with exactly the secret.
RoundTrip ==
  (GivenAnySubset /\ 2 <= ThresholdT /\ ThresholdT <= CountN)
    => recon.result = Ok(sharded.key)

\* reconstruct_key was given fewer shares than the threshold
FewerThanThreshold == recon.called /\ Len(recon.input) < ThresholdT

\* C2: with fewer than T shares reconstruct_key returns the
\* insufficient-shares error, never Ok, whatever the shares contain.
InsufficientShares ==
  FewerThanThreshold
    => recon.result = Err("Need at least {} shards, but only {} provided",
                          <<ThresholdT, Len(recon.input)>>)

\* fewer shares than the threshold, one of them no valid hex
InsufficientSharesNotHex ==
  /\ FewerThanThreshold
  /\ recon.edit.ch = "g"
  /\ ~hex_decode(recon.input[recon.edit.at]).ok
  /\ recon.result.kind = "Err"

\* two shares of the list given to reconstruct_key carry the same index byte
\* (the first two hex digits), both among the first ThresholdT
DuplicateAmongFirst ==
  /\ recon.called
  /\ \E i, j \in 1..Len(recon.input) :
       /\ i < j
       /\ j <= ThresholdT
       /\ SubSeq(recon.input[i], 1, 2) = SubSeq(recon.input[j], 1, 2)

\* C3: a list holding two shares with the same index byte makes
\* reconstruct_key return an error, never Ok with a key.
DuplicateIndex == DuplicateAmongFirst => recon.result.kind = "Err"

\* C4: with one byte of one share changed and at least T + 1 shares given,
\* reconstruct_key returns an error and never Ok with a value that is not
\* the secret.
TamperDetected ==
  (recon.called /\ recon.edit.at # 0 /\ Len(recon.input) >= ThresholdT + 1)
    => recon.result.kind = "Err"

\* C5: reconstruct_key returns the same result on any two T-subsets of the
\* shares of one shard_key call.
SubsetConsistency ==
  GivenAnySubset
    => \A other \in Selections(CountN) :
         (Distinct(other) /\ Len(other) = ThresholdT)
           => reconstruct_key(sharded.self, InputOf(sharded.result.value, other, NoEdit))
                = recon.result

\* reconstruct_key reached LCS35::unlock, which ran its loops
Unlocked ==
  /\ recon.called
  /\ recon.result.kind # "Panic"
  /\ recon.result.msg \in {"", "Reconstructed key is not valid UTF-8"}

\* C6: unlocking with difficulty d executes at least 2^d steps on the path
\* from reconstruct_key through LCS35::unlock (2^d is within TLC's integers
\* for d <= 30).
SequentialWork ==
  (Unlocked /\ sharded.self.difficulty <= 30)
    => recon.steps >= 2 ^ sharded.self.difficulty

\* C7: shard_key returns no shares when the threshold is below 2 or above
\* the share count.
InvalidParameters ==
  (sharded.called /\ (ThresholdT < 2 \/ CountN < ThresholdT))
    => sharded.result.kind # "Ok"

\* C8: for 2 <= N <= 255 shard_key(key, N) returns exactly N shares, the
\* i-th with index i as its first byte.
ShareCountAndIndices ==
  (sharded.called /\ 2 <= CountN /\ CountN <= 255)
    => /\ sharded.result.kind = "Ok"
       /\ Len(sharded.result.value) = CountN
       /\ \A i \in 1..Len(sharded.result.value) :
            hex_decode(sharded.result.value[i]).bytes[1] = i

\* C9: check_shard_entropy accepts every share set shard_key returns.
ValidatorAccepts ==
  (sharded.called /\ sharded.result.kind = "Ok" /\ entropy_check # "unchecked")
    => entropy_check = "PASSED"

\* the 0 bits and the 1 bits of sample
SampleZeros == count_zeros(sample, 1, Len(sample))
SampleOnes == 8 * Len(sample) - SampleZeros

\* C10: the bias test flags a sample whose bits are all 0 or all 1, flags
\* one with as many 0 bits as 1 bits, and flags none whose counts differ,
\* but by no more than one standard deviation of a fair coin
\* ((z - o)^2 <= z + o).
BiasTestBidirectional ==
  (suspicious # "untested" /\ Len(sample) > 0)
    => /\ (SampleZeros = 0 \/ SampleOnes = 0) => suspicious = "flagged"
       /\ SampleZeros = SampleOnes => suspicious = "flagged"
       /\ (/\ SampleZeros # SampleOnes
           /\ (SampleZeros - SampleOnes) * (SampleZeros - SampleOnes)
                <= SampleZeros + SampleOnes)
            => suspicious = "passed"
====
